---- MODULE Spec2Model ----
(***************************************************************************)
(* A model of icsorg (src/src/index.js): the script that reads an ICS      *)
(* calendar, expands it over a date window and writes an org-mode file.    *)
(* The asynchronous version of the script (src/unnamed/part_002, from line *)
(* 259) is modelled next to it where the two differ.                       *)
(*                                                                         *)
(* Conventions                                                             *)
(*  - A text is a sequence of one-character strings, so that startsWith,   *)
(*    includes, substring and the byte length of a chunk are computed on   *)
(*    characters as the JavaScript does.                                   *)
(*  - A JavaScript value is a record [t |-> type, v |-> payload]; `t` is   *)
(*    compared first, so values of different types compare unequal.        *)
(*  - A JavaScript Date is a number of minutes of local time counted from  *)
(*    Thursday 2021-08-05 00:00.                                           *)
(***************************************************************************)
EXTENDS Integers, Sequences, FiniteSets, TLC

VARIABLES
    version,            \* "sync": src/index.js; "async": the main() of unnamed/part_002
    pc,                 \* position of the top-level script
    argv, env,          \* minimist's argv and process.env after dotenv
    ICS_FILE, ORG_FILE, TITLE, AUTHOR, EMAIL, CATEGORY, STARTUP, FILETAGS,
    past, future,       \* the resolved settings (index.js 244-266)
    events,             \* what expander.between returned
    mappedEvents, mappedOccurrences, allEvents,
    rs,                 \* the Readable the document is pushed onto
    next,               \* index of the next event createOrgFile's forEach dumps
    of,                 \* the output file behind the write stream
    console,            \* what was printed, one record per message
    thrown,             \* the exception that ended the run, if any
    call                \* the last direct call of a formatting function

cfgVars == <<ICS_FILE, ORG_FILE, TITLE, AUTHOR, EMAIL, CATEGORY, STARTUP, FILETAGS, past, future>>

dataVars == <<events, mappedEvents, mappedOccurrences, allEvents>>

outVars == <<rs, next, of, console>>

vars == <<version, pc, argv, env, cfgVars, dataVars, outVars, thrown, call>>

(***************************************************************************)
(* Bounds of the model.                                                    *)
(***************************************************************************)
\* events of each kind (masters, occurrences) the expander returns at most
MaxEvents == 2
\* last day of the window of sample instants, counted from day 0
MaxDay == 2
\* largest weeks and days value of a sample duration
MaxWeeks == 2

(***************************************************************************)
(* JavaScript values.                                                      *)
(***************************************************************************)
undefined == [t |-> "undefined", v |-> <<>>]

null == [t |-> "null", v |-> <<>>]

Str(s) == [t |-> "string", v |-> s]

Num(n) == [t |-> "number", v |-> n]

Bool(b) == [t |-> "boolean", v |-> b]

\* the number NaN
NaN == [t |-> "nan", v |-> 0]

\* a Date object
DateOf(m) == [t |-> "date", v |-> m]

\* any other object
Obj(r) == [t |-> "object", v |-> r]

\* an exception leaving the function instead of a value
Throw(msg) == [t |-> "throw", v |-> msg]

IsThrow(x) == x.t = "throw"

\* ToBoolean, as `x ? a : b`, `x || y` and `if (x)` apply it
Truthy(x) ==
    CASE x.t = "undefined" -> FALSE
      [] x.t = "null" -> FALSE
      [] x.t = "string" -> x.v # <<>>
      [] x.t = "number" -> x.v # 0
      [] x.t = "boolean" -> x.v
      [] x.t = "nan" -> FALSE
      [] OTHER -> TRUE

\* x === y on primitives
StrictEq(x, y) == x.t = y.t /\ x.v = y.v

\* x || y
Or(x, y) == IF Truthy(x) THEN x ELSE y

Digit(n) == <<"0", "1", "2", "3", "4", "5", "6", "7", "8", "9">>[n + 1]

RECURSIVE NumStr(_)
\* String(n) of a non-negative integer
NumStr(n) == IF n < 10 THEN <<Digit(n)>> ELSE NumStr(n \div 10) \o <<Digit(n % 10)>>

IsDigit(c) == c \in {"0", "1", "2", "3", "4", "5", "6", "7", "8", "9"}

DigitVal(c) == CHOOSE n \in 0..9 : Digit(n) = c

\* what `${x}` puts into a template string
ToStr(x) ==
    CASE x.t = "undefined" -> <<"u","n","d","e","f","i","n","e","d">>
      [] x.t = "null" -> <<"n","u","l","l">>
      [] x.t = "string" -> x.v
      [] x.t = "number" -> NumStr(x.v)
      [] x.t = "boolean" -> IF x.v THEN <<"t","r","u","e">> ELSE <<"f","a","l","s","e">>
      [] x.t = "nan" -> <<"N","a","N">>
      [] OTHER -> <<"[","o","b","j","e","c","t"," ","O","b","j","e","c","t","]">>

\* s.startsWith(p)
startsWith(s, p) == Len(s) >= Len(p) /\ SubSeq(s, 1, Len(p)) = p

\* s.includes(c) for a one-character c
includes(s, c) == \E i \in 1..Len(s) : s[i] = c

\* s.substring(n)
substring(s, n) == SubSeq(s, n + 1, Len(s))

RECURSIVE join(_, _)
\* ss.join(sep)
join(ss, sep) ==
    IF ss = <<>> THEN <<>>
    ELSE IF Len(ss) = 1 THEN ss[1]
    ELSE ss[1] \o sep \o join(Tail(ss), sep)

(***************************************************************************)
(* parseDuration (index.js 84-96).  d is an ICAL.Duration: weeks, days,    *)
(* hours and minutes are numbers.                                          *)
(***************************************************************************)
\* variant of pad: no leading zero
pad_none(v) == NumStr(v)

pad(v) == IF v < 10 THEN <<"0">> \o NumStr(v) ELSE NumStr(v)

\* variant of parseDuration: the weeks branch shows the minutes
parseDuration_minutes(d) ==
    IF d.weeks # 0
    THEN NumStr(d.weeks) \o <<" ","w","k"," ">> \o NumStr(d.days) \o <<" ","d"," ">>
         \o pad(d.hours) \o <<":">> \o pad(d.minutes) \o <<" ","h","h",":","m","m">>
    ELSE IF d.days # 0
    THEN NumStr(d.days) \o <<" ","d"," ">> \o pad(d.hours) \o <<":">> \o pad(d.minutes) \o <<" ","h","h",":","m","m">>
    ELSE pad(d.hours) \o <<":">> \o pad(d.minutes) \o <<" ","h","h",":","m","m">>

parseDuration(d) ==
    IF d.weeks # 0
    THEN NumStr(d.weeks) \o <<" ","w","k"," ">> \o NumStr(d.days) \o <<" ","d"," ">>
         \o pad(d.hours) \o <<":">> \o pad(d.hours) \o <<" ","h","h",":","m","m">>
    ELSE IF d.days # 0
    THEN NumStr(d.days) \o <<" ","d"," ">> \o pad(d.hours) \o <<":">> \o pad(d.minutes) \o <<" ","h","h",":","m","m">>
    ELSE pad(d.hours) \o <<":">> \o pad(d.minutes) \o <<" ","h","h",":","m","m">>

(***************************************************************************)
(* Timestamps (index.js 98-124).  DateTime.fromJSDate reads the instant in *)
(* local time; toFormat renders yyyy-LL-dd ccc HH:mm.                      *)
(***************************************************************************)
MinutesPerDay == 24 * 60

dayOf(m) == m \div MinutesPerDay

hourOf(m) == (m % MinutesPerDay) \div 60

minuteOf(m) == m % 60

\* day 0 is Thursday 2021-08-05; the window stays inside August 2021
weekdayName(day) ==
    <<<<"M","o","n">>, <<"T","u","e">>, <<"W","e","d">>, <<"T","h","u">>, <<"F","r","i">>, <<"S","a","t">>, <<"S","u","n">>>>[((day + 3) % 7) + 1]

\* toFormat("yyyy-LL-dd ccc HH:mm")
fmtDateTime(m) ==
    <<"2","0","2","1","-","0","8","-">> \o pad(dayOf(m) + 5) \o <<" ">> \o weekdayName(dayOf(m)) \o <<" ">>
    \o pad(hourOf(m)) \o <<":">> \o pad(minuteOf(m))

\* toFormat("HH:mm")
fmtTime(m) == pad(hourOf(m)) \o <<":">> \o pad(minuteOf(m))

\* variant of hasSameDay: less than a day apart
hasSameDay_within24h(s, e) == e - s < MinutesPerDay /\ s - e < MinutesPerDay

\* sDate.hasSame(eDate, "day")
hasSameDay(s, e) == dayOf(s) = dayOf(e)

\* variant of makeTimestamp: the type is ignored
makeTimestamp_active(dt, type) ==
    IF Truthy(dt) THEN <<"<">> \o fmtDateTime(dt.v) \o <<">">> ELSE <<>>

\* type = "active" is the default of a call without a second argument
makeTimestamp(dt, type) ==
    LET kind == IF type = "omitted" THEN "active" ELSE type
        start == IF kind = "inactive" THEN <<"[">> ELSE <<"<">>
        end == IF kind = "inactive" THEN <<"]">> ELSE <<">">>
    IN  IF Truthy(dt) THEN start \o fmtDateTime(dt.v) \o end ELSE <<>>

makeTimestampRange(start, end) ==
    IF hasSameDay(start.v, end.v)
    THEN <<"<">> \o fmtDateTime(start.v) \o <<"-">> \o fmtTime(end.v) \o <<">">>
    ELSE <<"<">> \o fmtDateTime(start.v) \o <<">">> \o <<"-","-">> \o <<"<">> \o fmtDateTime(end.v) \o <<">">>

(***************************************************************************)
(* makeMailtoLink (index.js 126-134).                                      *)
(***************************************************************************)
\* variant of makeMailtoLink: the "@" test comes first
makeMailtoLink_atFirst(email) ==
    IF Truthy(email) /\ includes(email.v, "@")
    THEN Str(<<"[","[","m","a","i","l","t","o",":">> \o email.v \o <<"]","[">> \o email.v \o <<"]","]">>)
    ELSE IF Truthy(email) /\ startsWith(email.v, <<"m","a","i","l","t","o",":">>)
    THEN Str(<<"[","[">> \o email.v \o <<"]","[">> \o substring(email.v, 7) \o <<"]","]">>)
    ELSE email

makeMailtoLink(email) ==
    IF Truthy(email) /\ startsWith(email.v, <<"m","a","i","l","t","o",":">>)
    THEN LET addr == substring(email.v, 7)
         IN  Str(<<"[","[">> \o email.v \o <<"]","[">> \o addr \o <<"]","]">>)
    ELSE IF Truthy(email) /\ includes(email.v, "@")
    THEN Str(<<"[","[","m","a","i","l","t","o",":">> \o email.v \o <<"]","[">> \o email.v \o <<"]","]">>)
    ELSE email

(***************************************************************************)
(* parseAttendee (index.js 73-82).  data is the parameter object of an     *)
(* ATTENDEE property (a.jCal[1]); AUTHOR and EMAIL are the script's        *)
(* settings.                                                               *)
(***************************************************************************)
toLowerCase(s) ==
    LET upper == <<"A","B","C","D","E","F","G","H","I","J","K","L","M","N","O","P","Q","R","S","T","U","V","W","X","Y","Z">>
        lower == <<"a","b","c","d","e","f","g","h","i","j","k","l","m","n","o","p","q","r","s","t","u","v","w","x","y","z">>
        lc(c) == IF \E i \in 1..Len(upper) : upper[i] = c
                 THEN lower[CHOOSE i \in 1..Len(upper) : upper[i] = c]
                 ELSE c
    IN  [i \in 1..Len(s) |-> lc(s[i])]

\* variant of isMe: letter case is ignored
isMe_anyCase(cn, author, email) ==
    \/ cn.t = author.t /\ toLowerCase(cn.v) = toLowerCase(author.v)
    \/ cn.t = email.t /\ toLowerCase(cn.v) = toLowerCase(email.v)

\* data.cn === AUTHOR || data.cn === EMAIL
isMe(cn, author, email) == StrictEq(cn, author) \/ StrictEq(cn, email)

parseAttendee(data) ==
    [category |-> data.category,
     role |-> data.role,
     status |-> data.partstat,
     cn |-> data.cn,
     guests |-> data.xnumguests,
     me |-> isMe(data.cn, AUTHOR, EMAIL)]

(***************************************************************************)
(* getPropertyValue (index.js 163-177).  A component maps a property name  *)
(* to its first property: [present, value], value being null for a         *)
(* property that carries no value the library can produce.                 *)
(***************************************************************************)
getFirstProperty(name, component) == component[name]

\* the type ical.js declares for the property name
getDefaultType(name) ==
    CASE name = "status" -> "text"
      [] name = "last-modified" -> "date-time"
      [] name = "sequence" -> "integer"

getFirstValue(prop) == prop.value

\* val.toJSDate(): defined on an ICAL.Time only
toJSDate(val) ==
    IF val.t = "time" THEN DateOf(val.v)
    ELSE Throw(<<"T","y","p","e","E","r","r","o","r">>)

\* val.toString(): null and undefined have no methods
toStringMethod(val) ==
    IF val.t \in {"null", "undefined"} THEN Throw(<<"T","y","p","e","E","r","r","o","r">>)
    ELSE IF val.t = "time" THEN Str(fmtDateTime(val.v))
    ELSE Str(ToStr(val))

getPropertyValue(name, component) ==
    LET prop == getFirstProperty(name, component)
    IN  IF prop.present
        THEN CASE getDefaultType(name) = "text" -> getFirstValue(prop)
               [] getDefaultType(name) = "date-time" -> toJSDate(getFirstValue(prop))
               [] OTHER -> toStringMethod(getFirstValue(prop))
        ELSE Str(<<>>)

(***************************************************************************)
(* The Readable the document is pushed onto (index.js 230-233).  push      *)
(* buffers the chunk and answers whether more may be pushed: false once    *)
(* the buffered bytes reach the high-water mark.                           *)
(***************************************************************************)
\* the default highWaterMark of a byte-mode Readable
HighWaterMark == 16384

\* one element of a text that stands for a run of HighWaterMark characters
Bulk == "#bulk"

ByteLen(chunk) ==
    Len(chunk) + (HighWaterMark - 1) * Cardinality({i \in 1..Len(chunk) : chunk[i] = Bulk})

\* new Readable()
newReadable == [buffer |-> <<>>, length |-> 0, ended |-> FALSE]

\* the stream after r.push(chunk)
push(r, chunk) ==
    IF chunk = <<>> THEN r
    ELSE [r EXCEPT !.buffer = Append(@, chunk), !.length = @ + ByteLen(chunk)]

\* what r.push(chunk) returns
pushReturns(r, chunk) ==
    LET after == push(r, chunk)
    IN  ~after.ended /\ (after.length < HighWaterMark \/ after.length = 0)

\* the stream after r.push(null)
pushNull(r) == [r EXCEPT !.ended = TRUE]

\* variant of pushIf: the line is pushed whether or not the field is set
pushIf_always(cond, r, chunk) == push(r, chunk)

\* cond ? r.push(chunk) : null
pushIf(cond, r, chunk) == IF cond THEN push(r, chunk) ELSE r

(***************************************************************************)
(* dumpEvent (index.js 136-161): the stream after the event's block has    *)
(* been pushed.                                                            *)
(***************************************************************************)
attendeeText(a) == ToStr(makeMailtoLink(a.cn)) \o <<" ","(">> \o ToStr(a.status) \o <<")">>

attendeesLine(e) ==
    <<":","A","T","T","E","N","D","E","E","S",":"," "," "," "," ">> \o join([i \in 1..Len(e.attendees) |-> attendeeText(e.attendees[i])], <<","," ">>)

dumpEvent(e, r) ==
    LET r1 == push(r, <<"*"," ">> \o ToStr(e.summary) \o <<"\n">>)
        r2 == push(r1, <<":","P","R","O","P","E","R","T","I","E","S",":","\n">>)
        r3 == push(r2, <<":","I","C","A","L","_","E","V","E","N","T",":"," "," "," "," ","t","\n">>)
        r4 == push(r3, <<":","I","D",":"," "," "," "," "," "," "," "," "," "," "," "," ">> \o ToStr(e.uid) \o <<"\n">>)
        r5 == pushIf(Truthy(e.organizer), r4,
                     <<":","O","R","G","A","N","I","Z","E","R",":"," "," "," "," "," ">> \o ToStr(makeMailtoLink(e.organizer)) \o <<"\n">>)
        r6 == pushIf(Truthy(e.status), r5, <<":","S","T","A","T","U","S",":"," "," "," "," "," "," "," "," ">> \o ToStr(e.status) \o <<"\n">>)
        r7 == pushIf(Truthy(e.modified), r6,
                     <<":","L","A","S","T","_","M","O","D","I","F","I","E","D",":"," ">> \o makeTimestamp(e.modified, "inactive") \o <<"\n">>)
        r8 == pushIf(Truthy(e.location), r7, <<":","L","O","C","A","T","I","O","N",":"," "," "," "," "," "," ">> \o ToStr(e.location) \o <<"\n">>)
        r9 == pushIf(Truthy(e.duration), r8,
                     <<":","D","U","R","A","T","I","O","N",":"," "," "," "," "," "," ">> \o parseDuration(e.duration.v) \o <<"\n">>)
        r10 == IF Len(e.attendees) # 0
               THEN IF pushReturns(r9, attendeesLine(e))
                    THEN push(push(r9, attendeesLine(e)), <<"\n">>)
                    ELSE push(r9, attendeesLine(e))
               ELSE r9
        r11 == push(r10, <<":","E","N","D",":","\n">>)
        r12 == push(r11, makeTimestampRange(e.startDate, e.endDate))
        r13 == push(r12, <<"\n">>)
    IN  pushIf(Truthy(e.description), r13, <<"\n">> \o ToStr(e.description) \o <<"\n">>)

(***************************************************************************)
(* mapEvents and mapOccurences (index.js 179-214).  An event is an         *)
(* ICAL.Event; an occurrence is {recurrenceId, item, startDate, endDate}   *)
(* with item an ICAL.Event.  a.jCal[1] is the second element of the jCal   *)
(* array, the parameter object.                                            *)
(***************************************************************************)
mapEvent(e) ==
    [attendees |-> [i \in 1..Len(e.attendees) |-> parseAttendee(e.attendees[i].jCal[2])],
     description |-> e.description,
     duration |-> e.duration,
     endDate |-> toJSDate(e.endDate),
     location |-> e.location,
     organizer |-> e.organizer,
     recurrenceId |-> e.recurrenceId,
     sequence |-> e.sequence,
     startDate |-> toJSDate(e.startDate),
     summary |-> e.summary,
     uid |-> e.uid,
     status |-> getPropertyValue("status", e.component),
     modified |-> getPropertyValue("last-modified", e.component)]

\* variant of mapOccurence: the dates are those of the item
mapOccurence_itemDates(o) == [mapEvent(o.item) EXCEPT !.recurrenceId = o.recurrenceId]

mapOccurence(o) ==
    [recurrenceId |-> o.recurrenceId,
     startDate |-> toJSDate(o.startDate),
     endDate |-> toJSDate(o.endDate),
     summary |-> o.item.summary,
     description |-> o.item.description,
     duration |-> o.item.duration,
     attendees |-> [i \in 1..Len(o.item.attendees) |->
                       parseAttendee(o.item.attendees[i].jCal[2])],
     location |-> o.item.location,
     organizer |-> o.item.organizer,
     uid |-> o.item.uid,
     status |-> getPropertyValue("status", o.item.component),
     modified |-> getPropertyValue("last-modified", o.item.component)]

\* an exception raised while the record was built leaves the map
mapThrows(m) == IsThrow(m.status) \/ IsThrow(m.modified) \/ IsThrow(m.startDate) \/ IsThrow(m.endDate)

mapEvents(evts) == [i \in 1..Len(evts) |-> mapEvent(evts[i])]

mapOccurences(occurrences) == [i \in 1..Len(occurrences) |-> mapOccurence(occurrences[i])]

(***************************************************************************)
(* The mapping of the asynchronous version (unnamed/part_002 342-351,      *)
(* 506-555): author and email are parameters.  On line 508 they are        *)
(* written after the arrow function, as further arguments of map, so       *)
(* parseAttendee is called with the parameter object alone and its author  *)
(* and email are undefined.                                                *)
(***************************************************************************)
asyncParseAttendee(data, author, email) ==
    [category |-> data.category,
     role |-> data.role,
     status |-> data.partstat,
     cn |-> data.cn,
     guests |-> data.xnumguests,
     me |-> isMe(data.cn, author, email)]

commonEventProperties(e, author, email) ==
    [attendees |-> [i \in 1..Len(e.attendees) |->
                       asyncParseAttendee(e.attendees[i].jCal[2], undefined, undefined)],
     description |-> e.description,
     duration |-> e.duration,
     location |-> e.location,
     organizer |-> e.organizer,
     uid |-> e.uid,
     status |-> getPropertyValue("status", e.component),
     modified |-> getPropertyValue("last-modified", e.component),
     summary |-> e.summary]

\* { endDate, startDate, ...commonEventProperties(e, author, email) }
asyncMapEvents(evts, author, email) ==
    [i \in 1..Len(evts) |->
        [k \in {"endDate", "startDate"} |->
            IF k = "endDate" THEN toJSDate(evts[i].endDate) ELSE toJSDate(evts[i].startDate)]
        @@ commonEventProperties(evts[i], author, email)]

asyncMapOccurences(occurrences, author, email) ==
    [i \in 1..Len(occurrences) |->
        [k \in {"startDate", "endDate"} |->
            IF k = "startDate" THEN toJSDate(occurrences[i].startDate)
            ELSE toJSDate(occurrences[i].endDate)]
        @@ commonEventProperties(occurrences[i].item, author, email)]

RECURSIVE insertByStart(_, _)
insertByStart(x, xs) ==
    IF xs = <<>> THEN <<x>>
    ELSE IF x.startDate.v < Head(xs).startDate.v THEN <<x>> \o xs
    ELSE <<Head(xs)>> \o insertByStart(x, Tail(xs))

RECURSIVE sortByStart(_)
sortByStart(xs) == IF xs = <<>> THEN <<>> ELSE insertByStart(Head(xs), sortByStart(Tail(xs)))

\* variant of spread: the merged list ordered by start time
spread_sorted(ms, os) == sortByStart(ms \o os)

\* [...mappedEvents, ...mappedOccurrences] (index.js 283)
spread(ms, os) == ms \o os

(***************************************************************************)
(* The settings (index.js 244-266).                                        *)
(***************************************************************************)
DefaultPast == 7

DefaultFuture == 365

RECURSIVE digitsPrefix(_)
\* the leading decimal digits of a text
digitsPrefix(s) ==
    IF s # <<>> /\ IsDigit(Head(s)) THEN <<Head(s)>> \o digitsPrefix(Tail(s)) ELSE <<>>

RECURSIVE decimalValue(_)
decimalValue(ds) ==
    IF ds = <<>> THEN 0
    ELSE 10 * decimalValue(SubSeq(ds, 1, Len(ds) - 1)) + DigitVal(ds[Len(ds)])

\* parseInt(x): the integer the string form of x starts with, or NaN
parseInt(x) ==
    LET ds == digitsPrefix(ToStr(x))
    IN  IF ds = <<>> THEN NaN ELSE Num(decimalValue(ds))

\* lines 253-266, for -p/PAST and for -f/FUTURE
resolveDays(switch, setting, default) ==
    IF Truthy(switch) THEN parseInt(switch)
    ELSE IF Truthy(setting) THEN parseInt(setting)
    ELSE Num(default)

\* lines 244-245, 247-248: argv.x || process.env.X
resolveText(switch, setting) == Or(switch, setting)

\* variant of resolveTitle: no default
resolveTitle_asSet(setting) == setting

\* line 246
resolveTitle(setting) == Or(setting, Str(<<"C","a","l","e","n","d","a","r">>))

(***************************************************************************)
(* Sample inputs.                                                          *)
(***************************************************************************)
At(day, hour, minute) == day * MinutesPerDay + hour * 60 + minute

\* an ICAL.Time
Time(m) == [t |-> "time", v |-> m]

\* an ICAL.Duration
Duration(w, d, h, m) == Obj([weeks |-> w, days |-> d, hours |-> h, minutes |-> m])

Present(val) == [present |-> TRUE, value |-> val]

Absent == [present |-> FALSE, value |-> null]

PropertyNames == {"status", "last-modified", "sequence"}

Component(status, lastModified, sequence) ==
    [n \in PropertyNames |->
        CASE n = "status" -> status
          [] n = "last-modified" -> lastModified
          [] OTHER -> sequence]

\* an ATTENDEE property; its jCal array is [name, parameters, ...]
Attendee(cn, partstat) ==
    [jCal |-> <<"attendee",
                [category |-> undefined, role |-> Str(<<"R","E","Q">>), partstat |-> partstat,
                 cn |-> cn, xnumguests |-> undefined]>>]

Fred == Str(<<"F","r","e","d"," ","F","l","i","n","t","s","t","o","n","e">>)

FredLower == Str(<<"f","r","e","d"," ","f","l","i","n","t","s","t","o","n","e">>)

FredMail == Str(<<"f","r","e","d","@","b","e","d","r","o","c","k",".","c","o","m">>)

Wilma == Str(<<"W","i","l","m","a">>)

\* a meeting with every field set
Standup ==
    [summary |-> Str(<<"S","t","a","n","d","u","p">>), uid |-> Str(<<"u","1">>),
     organizer |-> Str(<<"m","a","i","l","t","o",":","f","r","e","d","@","b","e","d","r","o","c","k",".","c","o","m">>),
     location |-> Str(<<"R","o","o","m"," ","A">>), description |-> Str(<<"D","a","i","l","y">>),
     duration |-> Duration(0, 0, 0, 30),
     attendees |-> <<Attendee(Fred, Str(<<"A","C","C","E","P","T","E","D">>)), Attendee(FredMail, undefined)>>,
     startDate |-> Time(At(1, 9, 0)), endDate |-> Time(At(1, 9, 30)),
     recurrenceId |-> null, sequence |-> Num(1),
     component |-> Component(Present(Str(<<"C","O","N","F","I","R","M","E","D">>)), Present(Time(At(0, 12, 5))),
                             Present(Num(1)))]

\* an all-day event with nothing but its dates and uid
Holiday ==
    [summary |-> null, uid |-> Str(<<"u","2">>), organizer |-> null,
     location |-> null, description |-> null,
     duration |-> Duration(0, 1, 0, 0),
     attendees |-> <<>>,
     startDate |-> Time(At(0, 0, 0)), endDate |-> Time(At(1, 0, 0)),
     recurrenceId |-> null, sequence |-> null,
     component |-> Component(Absent, Absent, Absent)]

\* a long description, a bare address as organizer, an unnamed attendee,
\* a STATUS property with an empty value
Retreat ==
    [summary |-> Str(<<"R","e","t","r","e","a","t">>), uid |-> Str(<<"u","3">>),
     organizer |-> Str(<<"b","a","r","n","e","y","@","b","e","d","r","o","c","k",".","c","o","m">>),
     location |-> Str(<<>>), description |-> Str(<<Bulk>>),
     duration |-> Duration(1, 0, 0, 0),
     attendees |-> <<Attendee(undefined, Str(<<"T","E","N","T","A","T","I","V","E">>))>>,
     startDate |-> Time(At(0, 23, 0)), endDate |-> Time(At(2, 0, 0)),
     recurrenceId |-> null, sequence |-> Num(0),
     component |-> Component(Present(Str(<<>>)), Absent, Present(Num(0)))]

\* a LAST-MODIFIED property that carries no value
Broken ==
    [summary |-> Str(<<"B","r","o","k","e","n">>), uid |-> Str(<<"u","4">>), organizer |-> null,
     location |-> null, description |-> null,
     duration |-> Duration(0, 0, 1, 0),
     attendees |-> <<Attendee(FredLower, Str(<<"D","E","C","L","I","N","E","D">>))>>,
     startDate |-> Time(At(2, 10, 0)), endDate |-> Time(At(2, 11, 0)),
     recurrenceId |-> null, sequence |-> null,
     component |-> Component(Absent, Present(null), Absent)]

Masters == {Standup, Holiday, Retreat, Broken}

Occurrence(item, start, end) ==
    [recurrenceId |-> Time(start), item |-> item, startDate |-> Time(start), endDate |-> Time(end)]

Occurrences ==
    {Occurrence(Standup, At(0, 9, 0), At(0, 9, 30)),
     Occurrence(Holiday, At(2, 0, 0), At(2, 23, 59)),
     Occurrence(Retreat, At(1, 12, 0), At(1, 12, 0))}

SeqsUpTo(S, n) == UNION {[1..k -> S] : k \in 0..n}

NoSwitches ==
    [h |-> undefined, help |-> undefined, dump |-> undefined, i |-> undefined,
     o |-> undefined, a |-> undefined, e |-> undefined, p |-> undefined, f |-> undefined]

NoSettings ==
    [ICS_FILE |-> undefined, ORG_FILE |-> undefined, TITLE |-> undefined,
     AUTHOR |-> undefined, EMAIL |-> undefined, CATEGORY |-> undefined,
     STARTUP |-> undefined, FILETAGS |-> undefined, PAST |-> undefined, FUTURE |-> undefined]

\* the README's sample configuration file
ReadmeSettings ==
    [ICS_FILE |-> Str(<<"g",".","i","c","s">>), ORG_FILE |-> Str(<<"c","a","l",".","o","r","g">>), TITLE |-> Str(<<"G","o","o","g","l","e"," ","C","a","l","e","n","d","a","r">>),
     AUTHOR |-> Fred, EMAIL |-> FredMail, CATEGORY |-> Str(<<"C","A","L","E","N","D","A","R">>),
     STARTUP |-> Str(<<"h","i","d","e","s","t","a","r","s"," ","o","v","e","r","v","i","e","w">>), FILETAGS |-> Str(<<"E","V","E","N","T">>),
     PAST |-> Str(<<"3","0">>), FUTURE |-> Str(<<"3","6","5">>)]

\* the invocations the whole pipeline is run on: <<argv, env>>
Invocations ==
    {<<NoSwitches, ReadmeSettings>>,
     <<[NoSwitches EXCEPT !.i = Str(<<"i","n",".","i","c","s">>), !.o = Str(<<"o","u","t",".","o","r","g">>)], NoSettings>>,
     <<[NoSwitches EXCEPT !.h = Bool(TRUE)], ReadmeSettings>>,
     <<[NoSwitches EXCEPT !.help = Bool(TRUE), !.dump = Bool(TRUE)], NoSettings>>,
     <<[NoSwitches EXCEPT !.dump = Bool(TRUE)], ReadmeSettings>>,
     <<[NoSwitches EXCEPT !.i = Str(<<"i","n",".","i","c","s">>)], NoSettings>>,
     <<NoSwitches, NoSettings>>}

\* every combination of switches and settings, for the resolution of the settings
TextSwitches == {undefined, Str(<<"c","l","i">>)}

TextSettings == {undefined, Str(<<"r","c">>)}

DaySwitches == {undefined, Num(0), Num(3)}

DaySettings == {undefined, Str(<<"0">>), Str(<<"3","0">>)}

AllSwitches ==
    {[NoSwitches EXCEPT !.h = h, !.dump = d, !.i = i, !.o = o, !.a = a, !.e = e, !.p = p, !.f = f] :
        h \in {undefined, Bool(TRUE)}, d \in {undefined, Bool(TRUE)},
        i \in TextSwitches, o \in TextSwitches, a \in TextSwitches, e \in TextSwitches,
        p \in DaySwitches, f \in DaySwitches}

AllSettings ==
    {[NoSettings EXCEPT !.ICS_FILE = i, !.ORG_FILE = o, !.AUTHOR = a, !.EMAIL = e,
                        !.PAST = p, !.FUTURE = f] :
        i \in TextSettings, o \in TextSettings, a \in TextSettings, e \in TextSettings,
        p \in DaySettings, f \in DaySettings}

(***************************************************************************)
(* The top-level script (index.js 240-284), one action per statement.      *)
(***************************************************************************)
NoCall == [fn |-> "none", arg |-> <<>>, ret |-> <<>>]

NoFile == [state |-> "none", data |-> <<>>]

\* no exception so far; otherwise `at` is the step that failed and `message`
\* the prefixes of err.message followed by the cause
NoError == [at |-> "none", message |-> <<>>]

\* an exception nothing catches ends the process with that error; in the
\* asynchronous version main's catch (part_002 679-681) rethrows it as
\* `main: ${err.message}` and line 685 prints that message
uncaught(at, message) ==
    [at |-> at, message |-> IF version = "async" THEN <<"main">> \o message ELSE message]

\* the state the script starts in on argv av and environment ev
Start(av, ev) ==
    /\ version \in {"sync", "async"}
    /\ pc = "start"
    /\ argv = av
    /\ env = ev
    /\ ICS_FILE = undefined /\ ORG_FILE = undefined /\ TITLE = undefined
    /\ AUTHOR = undefined /\ EMAIL = undefined /\ CATEGORY = undefined
    /\ STARTUP = undefined /\ FILETAGS = undefined
    /\ past = undefined /\ future = undefined
    /\ events = [events |-> <<>>, occurrences |-> <<>>]
    /\ mappedEvents = <<>> /\ mappedOccurrences = <<>> /\ allEvents = <<>>
    /\ rs = newReadable
    /\ next = 1
    /\ of = NoFile
    /\ console = <<>>
    /\ thrown = NoError
    /\ call = NoCall

Init == version = "sync" /\ \E inv \in Invocations : Start(inv[1], inv[2])

\* lines 240-242: doHelp prints the usage and exits
Help ==
    /\ pc = "start"
    /\ Truthy(Or(argv.h, argv.help))
    /\ console' = Append(console, [text |-> "help"])
    /\ pc' = "exited"
    /\ UNCHANGED <<version, argv, env, cfgVars, dataVars, rs, next, of, thrown, call>>

\* lines 244-269
ResolveConfig ==
    /\ pc = "start"
    /\ ~Truthy(Or(argv.h, argv.help))
    /\ ICS_FILE' = resolveText(argv.i, env.ICS_FILE)
    /\ ORG_FILE' = resolveText(argv.o, env.ORG_FILE)
    /\ TITLE' = resolveTitle(env.TITLE)
    /\ AUTHOR' = resolveText(argv.a, env.AUTHOR)
    /\ EMAIL' = resolveText(argv.e, env.EMAIL)
    /\ CATEGORY' = env.CATEGORY
    /\ STARTUP' = env.STARTUP
    /\ FILETAGS' = env.FILETAGS
    /\ past' = resolveDays(argv.p, env.PAST, DefaultPast)
    /\ future' = resolveDays(argv.f, env.FUTURE, DefaultFuture)
    /\ pc' = "resolved"
    /\ UNCHANGED <<version, argv, env, dataVars, outVars, thrown, call>>

\* variant of DumpConfig: dumpConfig returns and the script goes on to read
DumpConfig_returns ==
    /\ pc = "resolved"
    /\ Truthy(argv.dump)
    /\ console' = Append(console, [text |-> "config"])
    /\ pc' = "read"
    /\ UNCHANGED <<version, argv, env, cfgVars, dataVars, rs, next, of, thrown, call>>

\* lines 271-273: dumpConfig prints the settings and exits
DumpConfig ==
    /\ pc = "resolved"
    /\ Truthy(argv.dump)
    /\ console' = Append(console, [text |-> "config"])
    /\ pc' = "exited"
    /\ UNCHANGED <<version, argv, env, cfgVars, dataVars, rs, next, of, thrown, call>>

\* line 275: readFileSync throws when there is no such file or no file name
ReadIcsFile ==
    /\ pc = "resolved"
    /\ ~Truthy(argv.dump)
    /\ \E readable \in BOOLEAN :
          IF Truthy(ICS_FILE) /\ readable
          THEN pc' = "read" /\ UNCHANGED thrown
          ELSE pc' = "crashed" /\ thrown' = uncaught("acquire", <<"ENOENT">>)
    /\ UNCHANGED <<version, argv, env, cfgVars, dataVars, outVars, call>>

\* variant of getIcsDataError: the cause is rethrown as it is
getIcsDataError_bare(message) == message

\* part_002 613-615: throw new Error(`getIcsData: ${err.message}`)
getIcsDataError(message) == <<"getIcsData">> \o message

\* part_002 662, 600-616: the data is fetched or read; a source that is not a
\* string, a failed request and an unreadable file all end in the catch
GetIcsData ==
    /\ pc = "resolved"
    /\ ~Truthy(argv.dump)
    /\ \E available \in BOOLEAN :
          IF Truthy(ICS_FILE) /\ available
          THEN pc' = "read" /\ UNCHANGED thrown
          ELSE /\ pc' = "crashed"
               /\ thrown' = uncaught("acquire",
                                     getIcsDataError(IF Truthy(ICS_FILE) THEN <<"ENOENT">>
                                                     ELSE <<"TypeError">>))
    /\ UNCHANGED <<version, argv, env, cfgVars, dataVars, outVars, call>>

\* lines 277-279: the expander returns the events and occurrences of the window,
\* or throws on data it cannot parse
Expand ==
    /\ pc = "read"
    /\ \/ \E ms \in SeqsUpTo(Masters, MaxEvents), os \in SeqsUpTo(Occurrences, MaxEvents) :
             /\ events' = [events |-> ms, occurrences |-> os]
             /\ pc' = "expanded"
             /\ UNCHANGED thrown
       \/ /\ pc' = "crashed"
          /\ thrown' = uncaught("expand", <<"ParserError">>)
          /\ UNCHANGED events
    /\ UNCHANGED <<version, argv, env, cfgVars, mappedEvents, mappedOccurrences, allEvents, outVars, call>>

\* line 281; part_002 668
MapEvents ==
    /\ pc = "expanded"
    /\ LET mapped == IF version = "async" THEN asyncMapEvents(events.events, AUTHOR, EMAIL)
                     ELSE mapEvents(events.events)
       IN  IF \E k \in 1..Len(mapped) : mapThrows(mapped[k])
           THEN pc' = "crashed" /\ thrown' = uncaught("map", <<"TypeError">>) /\ UNCHANGED mappedEvents
           ELSE pc' = "mappedEvents" /\ mappedEvents' = mapped /\ UNCHANGED thrown
    /\ UNCHANGED <<version, argv, env, cfgVars, events, mappedOccurrences, allEvents, outVars, call>>

\* line 282; part_002 669-673
MapOccurences ==
    /\ pc = "mappedEvents"
    /\ LET mapped == IF version = "async" THEN asyncMapOccurences(events.occurrences, AUTHOR, EMAIL)
                     ELSE mapOccurences(events.occurrences)
       IN  IF \E k \in 1..Len(mapped) : mapThrows(mapped[k])
           THEN /\ pc' = "crashed" /\ thrown' = uncaught("map", <<"TypeError">>)
                /\ UNCHANGED mappedOccurrences
           ELSE pc' = "mappedOccurrences" /\ mappedOccurrences' = mapped /\ UNCHANGED thrown
    /\ UNCHANGED <<version, argv, env, cfgVars, events, mappedEvents, allEvents, outVars, call>>

\* line 283
Merge ==
    /\ pc = "mappedOccurrences"
    /\ allEvents' = spread(mappedEvents, mappedOccurrences)
    /\ pc' = "merged"
    /\ UNCHANGED <<version, argv, env, cfgVars, events, mappedEvents, mappedOccurrences, outVars, thrown, call>>

(***************************************************************************)
(* createOrgFile (index.js 216-238), called on line 284.                   *)
(***************************************************************************)
header ==
    <<<<"#","+","T","I","T","L","E",":"," "," "," "," "," "," "," ">> \o ToStr(TITLE) \o <<"\n">>,
      <<"#","+","A","U","T","H","O","R",":"," "," "," "," "," "," ">> \o ToStr(AUTHOR) \o <<"\n">>,
      <<"#","+","E","M","A","I","L",":"," "," "," "," "," "," "," ">> \o ToStr(EMAIL) \o <<"\n">>,
      <<"#","+","D","E","S","C","R","I","P","T","I","O","N",":"," ","c","o","n","v","e","r","t","e","d"," ","u","s","i","n","g"," ","i","c","s","o","r","g"," ","n","o","d","e"," ","s","c","r","i","p","t","\n">>,
      <<"#","+","C","A","T","E","G","O","R","Y",":"," "," "," "," ">> \o ToStr(CATEGORY) \o <<"\n">>,
      <<"#","+","S","T","A","R","T","U","P",":"," "," "," "," "," ">> \o ToStr(STARTUP) \o <<"\n">>,
      <<"#","+","F","I","L","E","T","A","G","S",":"," "," "," "," ">> \o ToStr(FILETAGS) \o <<"\n">>,
      <<"\n">>>>

\* variant of createOrgFileError: the cause is rethrown as it is
createOrgFileError_bare(message) == message

\* lines 235-237: throw new Error(`createOrgFile: ${err.message}`)
createOrgFileError(message) == <<"createOrgFile">> \o message

RECURSIVE pushAll(_, _)
\* header.forEach((h) => rs.push(h))
pushAll(r, chunks) ==
    IF chunks = <<>> THEN r ELSE pushAll(push(r, Head(chunks)), Tail(chunks))

\* lines 229-231: createWriteStream throws on a missing file name, and the catch
\* rethrows; otherwise the stream is made and the header pushed
CreateOrgFile ==
    /\ pc = "merged"
    /\ IF Truthy(ORG_FILE)
       THEN /\ of' = [state |-> "opening", data |-> <<>>]
            /\ rs' = pushAll(newReadable, header)
            /\ next' = 1
            /\ pc' = "forEach"
            /\ UNCHANGED thrown
       ELSE /\ pc' = "crashed"
            /\ thrown' = uncaught("output", createOrgFileError(<<"ERR_INVALID_ARG_TYPE">>))
            /\ UNCHANGED <<of, rs, next>>
    /\ UNCHANGED <<version, argv, env, cfgVars, dataVars, console, call>>

\* variant of forEachItem: the list is walked from its end
forEachItem_reversed(xs, k) == xs[Len(xs) - k + 1]

\* the element the k-th turn of xs.forEach visits
forEachItem(xs, k) == xs[k]

\* line 232: one turn of events.forEach((e) => dumpEvent(e, rs))
DumpEvent ==
    /\ pc = "forEach"
    /\ next <= Len(allEvents)
    /\ rs' = dumpEvent(forEachItem(allEvents, next), rs)
    /\ next' = next + 1
    /\ UNCHANGED <<version, pc, argv, env, cfgVars, dataVars, of, console, thrown, call>>

\* lines 233-234: rs.push(null); rs.pipe(of)
Pipe ==
    /\ pc = "forEach"
    /\ next > Len(allEvents)
    /\ rs' = pushNull(rs)
    /\ pc' = "piping"
    /\ UNCHANGED <<version, argv, env, cfgVars, dataVars, next, of, console, thrown, call>>

\* part_002 676-678: console.log(`Generated new org file in ${config.ORG_FILE}
\* with ${allEvents.length} entries`), right after createOrgFile has returned
Generated ==
    /\ version = "async"
    /\ pc = "piping"
    /\ console' = Append(console, [text |-> "generated", file |-> ORG_FILE,
                                   entries |-> Len(allEvents)])
    /\ pc' = "reported"
    /\ UNCHANGED <<version, argv, env, cfgVars, dataVars, rs, next, of, thrown, call>>

\* after the script has returned: the file is opened (created or truncated) and
\* the buffered chunks are written to it, or the write stream emits 'error'
\* (the file cannot be opened or written); no listener is attached to the
\* stream and the try block of createOrgFile has been left, so the event is
\* thrown as it is, outside of every catch
Flush ==
    /\ pc = IF version = "async" THEN "reported" ELSE "piping"
    /\ \/ /\ of' = [state |-> "closed", data |-> rs.buffer]
          /\ pc' = "done"
          /\ UNCHANGED thrown
       \/ /\ of' = [of EXCEPT !.state = "error"]
          /\ pc' = "crashed"
          /\ thrown' = [at |-> "output", message |-> <<"EACCES">>]
    /\ UNCHANGED <<version, argv, env, cfgVars, dataVars, rs, next, console, call>>

Next ==
    \/ Help
    \/ ResolveConfig
    \/ DumpConfig
    \/ ReadIcsFile
    \/ Expand
    \/ MapEvents
    \/ MapOccurences
    \/ Merge
    \/ CreateOrgFile
    \/ DumpEvent
    \/ Pipe
    \/ Flush

Spec == Init /\ [][Next]_vars

(***************************************************************************)
(* The resolution of the settings on every combination of switches and     *)
(* settings: the script up to line 273.                                    *)
(***************************************************************************)
InitConfig == version = "sync" /\ \E av \in AllSwitches, ev \in AllSettings : Start(av, ev)

NextConfig ==
    \/ Help
    \/ ResolveConfig
    \/ DumpConfig

SpecConfig == InitConfig /\ [][NextConfig]_vars

(***************************************************************************)
(* The asynchronous version of the script (unnamed/part_002 259-685): the  *)
(* same steps inside main(), with the data read by getIcsData and every    *)
(* exception rethrown with the name of the function it passed through.     *)
(***************************************************************************)
InitAsync == version = "async" /\ \E inv \in Invocations : Start(inv[1], inv[2])

NextAsync ==
    \/ Help
    \/ ResolveConfig
    \/ DumpConfig
    \/ GetIcsData
    \/ Expand
    \/ MapEvents
    \/ MapOccurences
    \/ Merge
    \/ CreateOrgFile
    \/ DumpEvent
    \/ Pipe
    \/ Generated
    \/ Flush

SpecAsync == InitAsync /\ [][NextAsync]_vars

(***************************************************************************)
(* The formatting functions called directly, each once, on every sample    *)
(* argument.  AUTHOR and EMAIL are resolved as by -a and -e.               *)
(***************************************************************************)
Identities == {<<undefined, undefined>>, <<Fred, FredMail>>, <<undefined, FredMail>>, <<Fred, undefined>>}

Hours == 0..23

Minutes == 0..59

Durations == [weeks : 0..MaxWeeks, days : 0..MaxWeeks, hours : Hours, minutes : Minutes]

Instants == {At(d, h, m) : d \in 0..MaxDay, h \in {0, 12, 23}, m \in {0, 30, 59}}

LinkInputs ==
    {undefined, null, Str(<<>>),
     Str(<<"m","a","i","l","t","o",":","f","r","e","d","@","b","e","d","r","o","c","k",".","c","o","m">>), Str(<<"f","r","e","d","@","b","e","d","r","o","c","k",".","c","o","m">>), Str(<<"C","o","n","f","e","r","e","n","c","e"," ","R","o","o","m"," ","A">>),
     Str(<<"m","a","i","l","t","o",":","x">>), Str(<<"m","a","i","l","t","o",":">>), Str(<<"m","a","i","l","t","o">>), Str(<<"a","@","m","a","i","l","t","o",":","b">>),
     Str(<<"M","a","i","l","t","o",":","f","r","e","d","@","b","e","d","r","o","c","k",".","c","o","m">>), Str(<<"@">>)}

CommonNames == {undefined, Fred, FredLower, FredMail, Wilma, Str(<<"F","R","E","D","@","B","E","D","R","O","C","K",".","C","O","M">>)}

AttendeeParams ==
    [category : {undefined, Str(<<"I","N","D","I","V","I","D","U","A","L">>)}, role : {undefined, Str(<<"R","E","Q">>)},
     partstat : {undefined, Str(<<"A","C","C","E","P","T","E","D">>)}, cn : CommonNames,
     xnumguests : {undefined, Str(<<"2">>)}]

\* the first property of a name as an ICS file can give it: absent, or present
\* with a value of the name's type; "STATUS:" has the empty text as value,
\* "LAST-MODIFIED:" has no date-time value at all
SampleProperties(name) ==
    CASE name = "status" -> {Absent, Present(Str(<<"C","O","N","F","I","R","M","E","D">>)), Present(Str(<<>>))}
      [] name = "last-modified" -> {Absent, Present(Time(At(1, 12, 30))), Present(null)}
      [] OTHER -> {Absent, Present(Num(2)), Present(NaN)}

InitFn ==
    \E id \in Identities :
        /\ version = "sync"
        /\ pc = "resolved"
        /\ argv = [NoSwitches EXCEPT !.a = id[1], !.e = id[2]]
        /\ env = NoSettings
        /\ ICS_FILE = undefined /\ ORG_FILE = undefined /\ TITLE = resolveTitle(undefined)
        /\ AUTHOR = resolveText(id[1], undefined) /\ EMAIL = resolveText(id[2], undefined)
        /\ CATEGORY = undefined /\ STARTUP = undefined /\ FILETAGS = undefined
        /\ past = Num(DefaultPast) /\ future = Num(DefaultFuture)
        /\ events = [events |-> <<>>, occurrences |-> <<>>]
        /\ mappedEvents = <<>> /\ mappedOccurrences = <<>> /\ allEvents = <<>>
        /\ rs = newReadable
        /\ next = 1
        /\ of = NoFile
        /\ console = <<>>
        /\ thrown = NoError
        /\ call = NoCall

progVars == <<version, pc, argv, env, cfgVars, dataVars, outVars, thrown>>

returned(fn, arg, ret) == [fn |-> fn, arg |-> arg, ret |-> ret]

CallParseDuration ==
    /\ call = NoCall
    /\ \E d \in Durations : call' = returned("parseDuration", d, parseDuration(d))
    /\ UNCHANGED progVars

CallMakeTimestamp ==
    /\ call = NoCall
    /\ \E dt \in {DateOf(m) : m \in Instants} \cup {undefined, null, Str(<<>>)},
          type \in {"active", "inactive", "omitted"} :
            call' = returned("makeTimestamp", <<dt, type>>, makeTimestamp(dt, type))
    /\ UNCHANGED progVars

CallMakeTimestampRange ==
    /\ call = NoCall
    /\ \E s \in Instants, e \in Instants :
            call' = returned("makeTimestampRange", <<s, e>>,
                             makeTimestampRange(DateOf(s), DateOf(e)))
    /\ UNCHANGED progVars

CallMakeMailtoLink ==
    /\ call = NoCall
    /\ \E raw \in LinkInputs : call' = returned("makeMailtoLink", raw, makeMailtoLink(raw))
    /\ UNCHANGED progVars

CallParseAttendee ==
    /\ call = NoCall
    /\ \E data \in AttendeeParams : call' = returned("parseAttendee", data, parseAttendee(data))
    /\ UNCHANGED progVars

CallGetPropertyValue ==
    /\ call = NoCall
    /\ \E name \in PropertyNames : \E prop \in SampleProperties(name) :
            LET component == [n \in PropertyNames |-> IF n = name THEN prop ELSE Absent]
            IN  call' = returned("getPropertyValue", <<name, prop>>,
                                 getPropertyValue(name, component))
    /\ UNCHANGED progVars

\* the events dumpEvent is given: mapped masters and occurrences
MappedSamples ==
    {m \in {mapEvent(e) : e \in Masters} : ~mapThrows(m)}
    \cup {mapOccurence(o) : o \in Occurrences}

\* dumpEvent on a new stream, and on one that already holds a long chunk
CallDumpEvent ==
    /\ call = NoCall
    /\ \E e \in MappedSamples, r \in {newReadable, push(newReadable, <<Bulk>>)} :
            call' = returned("dumpEvent", <<e, r>>, dumpEvent(e, r).buffer)
    /\ UNCHANGED progVars

NextFn ==
    \/ CallDumpEvent
    \/ CallParseDuration
    \/ CallMakeTimestamp
    \/ CallMakeTimestampRange
    \/ CallMakeMailtoLink
    \/ CallParseAttendee
    \/ CallGetPropertyValue

SpecFn == InitFn /\ [][NextFn]_vars

(***************************************************************************)
(* Properties.                                                             *)
(***************************************************************************)
Merged == pc \in {"merged", "forEach", "piping", "done"}

Rendering == pc \in {"forEach", "piping", "done"}

IsPrefix(xs, ys) == Len(xs) <= Len(ys) /\ SubSeq(ys, 1, Len(xs)) = xs

\* a chunk that opens an entry of the org file
IsHeadline(chunk) == Len(chunk) >= 2 /\ chunk[1] = "*" /\ chunk[2] = " "

HeadlineIndices == {i \in 1..Len(rs.buffer) : IsHeadline(rs.buffer[i])}

\* position in the buffer of the k-th headline
HeadlineIndex(k) ==
    CHOOSE i \in HeadlineIndices : Cardinality({j \in HeadlineIndices : j <= i}) = k

\* the chunks from the k-th headline up to the next one
Block(k) ==
    SubSeq(rs.buffer, HeadlineIndex(k),
           IF k < Cardinality(HeadlineIndices) THEN HeadlineIndex(k + 1) - 1 ELSE Len(rs.buffer))

Count(chunks, chunk) == Cardinality({i \in 1..Len(chunks) : chunks[i] = chunk})

HeaderLines == 8

\* C1: the merged list is the normalized masters followed by the normalized
\* occurrences: its length is the sum of both, every master precedes every
\* occurrence, each group keeps its order, nothing is reordered by start time.
C1_MergeKeepsOrder ==
    Merged =>
        /\ Len(allEvents) = Len(events.events) + Len(events.occurrences)
        /\ \A i \in 1..Len(events.events) : allEvents[i] = mapEvent(events.events[i])
        /\ \A j \in 1..Len(events.occurrences) :
              allEvents[Len(events.events) + j] = mapOccurence(events.occurrences[j])

\* a master is followed in the merged list by an occurrence that starts earlier
C1_Witness ==
    /\ pc = "merged"
    /\ Len(events.events) >= 1
    /\ Len(events.occurrences) >= 1
    /\ allEvents[Len(allEvents)].startDate.v < allEvents[1].startDate.v

C2_Document ==
    Rendering =>
        /\ Len(rs.buffer) >= HeaderLines
        /\ startsWith(rs.buffer[1], <<"#","+","T","I","T","L","E",":">>)
        /\ \A i \in HeadlineIndices : i > HeaderLines
        /\ Cardinality(HeadlineIndices) = next - 1
        /\ next - 1 <= Len(allEvents)
        /\ pc # "forEach" => next - 1 = Len(allEvents)
        /\ \A k \in 1..(next - 1) :
              /\ rs.buffer[HeadlineIndex(k)] = <<"*"," ">> \o ToStr(allEvents[k].summary) \o <<"\n">>
              /\ Count(Block(k), <<":","P","R","O","P","E","R","T","I","E","S",":","\n">>) = 1
              /\ Count(Block(k), <<":","E","N","D",":","\n">>) = 1
        /\ next > 1 => HeadlineIndex(1) = HeaderLines + 1
        /\ pc = "done" => of.data = rs.buffer

\* C2: createOrgFile emits the header first and then exactly one block per
\* event, in the order of the list it is given: as many headlines as events
\* dumped, the k-th headline carrying the k-th event's summary; and a step
\* only appends to what was pushed, never rewrites or removes it.
C2_HeaderThenBlocksAppendOnly ==
    /\ []C2_Document
    /\ [][IsPrefix(rs.buffer, rs'.buffer)]_vars

\* a finished document of two events with different summaries
C2_Witness ==
    /\ pc = "done"
    /\ Len(allEvents) >= 2
    /\ allEvents[1].summary # allEvents[2].summary
    /\ Cardinality(HeadlineIndices) = Len(allEvents)

IsSet(x) == x.t = "string" /\ Len(x.v) > 0

\* the chunks of a block that start with the label
Lines(block, label) == {i \in 1..Len(block) : startsWith(block[i], label)}

\* the line is in the block exactly if wanted, once, and with a value after its
\* label (and before the line break, when the chunk carries one)
LineIff(block, label, wanted, tail) ==
    /\ Cardinality(Lines(block, label)) = IF wanted THEN 1 ELSE 0
    /\ \A i \in Lines(block, label) : Len(block[i]) > Len(label) + tail

\* the paragraph chunk "\n<description>\n"
Paragraphs(block) ==
    {i \in 1..Len(block) : Len(block[i]) >= 2 /\ block[i][1] = "\n"}

\* C3: dumpEvent emits each of the ORGANIZER, STATUS, LAST_MODIFIED, LOCATION,
\* DURATION and ATTENDEES lines and the description paragraph if and only if
\* the field is present (non-empty; a non-empty list for attendees), and never
\* a line with an empty value.
C3_LinesIffPresent ==
    Rendering =>
        \A k \in 1..(next - 1) :
            LET b == Block(k)
                e == allEvents[k]
            IN  /\ LineIff(b, <<":","O","R","G","A","N","I","Z","E","R",":"," "," "," "," "," ">>, IsSet(e.organizer), 1)
                /\ LineIff(b, <<":","S","T","A","T","U","S",":"," "," "," "," "," "," "," "," ">>, IsSet(e.status), 1)
                /\ LineIff(b, <<":","L","A","S","T","_","M","O","D","I","F","I","E","D",":"," ">>, e.modified.t = "date", 1)
                /\ LineIff(b, <<":","L","O","C","A","T","I","O","N",":"," "," "," "," "," "," ">>, IsSet(e.location), 1)
                /\ LineIff(b, <<":","D","U","R","A","T","I","O","N",":"," "," "," "," "," "," ">>, e.duration.t = "object", 1)
                /\ LineIff(b, <<":","A","T","T","E","N","D","E","E","S",":"," "," "," "," ">>, Len(e.attendees) > 0, 0)
                /\ Cardinality(Paragraphs(b)) = IF IsSet(e.description) THEN 1 ELSE 0
                /\ \A i \in Paragraphs(b) : Len(b[i]) > 2

\* a document holding an event with every field and one with none of the
\* optional fields
C3_Witness ==
    /\ pc = "done"
    /\ \E k \in 1..Len(allEvents) :
          /\ IsSet(allEvents[k].status) /\ IsSet(allEvents[k].organizer)
          /\ Len(allEvents[k].attendees) > 0
          /\ Lines(Block(k), <<":","S","T","A","T","U","S",":"," "," "," "," "," "," "," "," ">>) # {}
    /\ \E k \in 1..Len(allEvents) :
          /\ ~IsSet(allEvents[k].status) /\ ~IsSet(allEvents[k].organizer)
          /\ allEvents[k].attendees = <<>>
          /\ Lines(Block(k), <<":","S","T","A","T","U","S",":"," "," "," "," "," "," "," "," ">>) = {}

Two(n) == <<Digit(n \div 10), Digit(n % 10)>>

Decimal(n) == IF n < 10 THEN <<Digit(n)>> ELSE Two(n)

CalledParseDuration == call.fn = "parseDuration"

\* C4: for a duration whose weeks field is set parseDuration returns
\* "<weeks> wk <days> d <HH>:<HH> hh:mm", both two-digit slots holding the
\* zero-padded hours; {weeks:1,days:2,hours:3,minutes:4} gives
\* "1 wk 2 d 03:03 hh:mm".
C4_WeeksBranch ==
    (CalledParseDuration /\ call.arg.weeks # 0) =>
        LET d == call.arg
        IN  /\ call.ret = Decimal(d.weeks) \o <<" ","w","k"," ">> \o Decimal(d.days) \o <<" ","d"," ">>
                          \o Two(d.hours) \o <<":">> \o Two(d.hours) \o <<" ","h","h",":","m","m">>
            /\ d = [weeks |-> 1, days |-> 2, hours |-> 3, minutes |-> 4]
                  => call.ret = <<"1"," ","w","k"," ","2"," ","d"," ","0","3",":","0","3"," ","h","h",":","m","m">>

C4_Witness ==
    /\ CalledParseDuration
    /\ call.arg = [weeks |-> 1, days |-> 2, hours |-> 3, minutes |-> 4]
    /\ call.ret = <<"1"," ","w","k"," ","2"," ","d"," ","0","3",":","0","3"," ","h","h",":","m","m">>

\* the last eleven characters are "HH:MM hh:mm" with four digits, and what
\* comes before them ends with a space
EndsWithTwoDigitClock(text) ==
    /\ Len(text) >= 11
    /\ LET t == SubSeq(text, Len(text) - 10, Len(text))
       IN  /\ IsDigit(t[1]) /\ IsDigit(t[2]) /\ t[3] = ":" /\ IsDigit(t[4]) /\ IsDigit(t[5])
           /\ SubSeq(t, 6, 11) = <<" ","h","h",":","m","m">>
    /\ Len(text) > 11 => text[Len(text) - 11] = " "

\* C5: the branches of parseDuration are exclusive and chosen by magnitude:
\* no weeks and non-zero days gives "<days> d <HH>:<MM> hh:mm", neither weeks
\* nor days gives "<HH>:<MM> hh:mm", and in every branch the hour and minute
\* fields are exactly two digits, for hours 0..23 and minutes 0..59.
C5_BranchesAndPadding ==
    CalledParseDuration =>
        LET d == call.arg
        IN  /\ (d.weeks = 0 /\ d.days # 0) =>
                  call.ret = Decimal(d.days) \o <<" ","d"," ">> \o Two(d.hours) \o <<":">> \o Two(d.minutes)
                             \o <<" ","h","h",":","m","m">>
            /\ (d.weeks = 0 /\ d.days = 0) =>
                  call.ret = Two(d.hours) \o <<":">> \o Two(d.minutes) \o <<" ","h","h",":","m","m">>
            /\ EndsWithTwoDigitClock(call.ret)

C5_Witness ==
    /\ CalledParseDuration
    /\ call.arg = [weeks |-> 0, days |-> 1, hours |-> 0, minutes |-> 0]
    /\ call.ret = <<"1"," ","d"," ","0","0",":","0","0"," ","h","h",":","m","m">>

\* the calendar day an instant falls on
CalendarDay(m) ==
    CHOOSE d \in 0..(MaxDay + 1) : d * MinutesPerDay <= m /\ m < (d + 1) * MinutesPerDay

Weekday(day) == <<<<"T","h","u">>, <<"F","r","i">>, <<"S","a","t">>, <<"S","u","n">>, <<"M","o","n">>, <<"T","u","e">>, <<"W","e","d">>>>[(day % 7) + 1]

Clock(m) == Two((m - CalendarDay(m) * MinutesPerDay) \div 60) \o <<":">> \o Two(m % 60)

\* yyyy-MM-dd Www HH:mm
Stamp(m) ==
    <<"2","0","2","1","-","0","8","-">> \o Two(5 + CalendarDay(m)) \o <<" ">> \o Weekday(CalendarDay(m)) \o <<" ">> \o Clock(m)

\* C6: makeTimestampRange renders one bracket "<yyyy-MM-dd Www HH:mm-HH:mm>"
\* if and only if start and end fall on the same calendar day (start = end
\* included), and two active timestamps joined by "--" otherwise; an end on a
\* later day never collapses, not even 00:00 of the next day.
C6_RangeCollapsesIffSameDay ==
    call.fn = "makeTimestampRange" =>
        LET s == call.arg[1]
            e == call.arg[2]
            sameDay == CalendarDay(s) = CalendarDay(e)
        IN  /\ sameDay => call.ret = <<"<">> \o Stamp(s) \o <<"-">> \o Clock(e) \o <<">">>
            /\ ~sameDay => call.ret = <<"<">> \o Stamp(s) \o <<">","-","-","<">> \o Stamp(e) \o <<">">>
            /\ (Count(call.ret, "<") = 1) <=> sameDay

\* a day that ends at 00:00 of the next day
C6_Witness ==
    /\ call.fn = "makeTimestampRange"
    /\ call.arg = <<At(1, 0, 0), At(2, 0, 0)>>
    /\ call.ret = <<"<","2","0","2","1","-","0","8","-","0","6"," ","F","r","i"," ","0","0",":","0","0",">","-","-","<","2","0","2","1","-","0","8","-","0","7"," ","S","a","t"," ","0","0",":","0","0",">">>

HasMailtoPrefix(x) ==
    x.t = "string" /\ \E rest \in {SubSeq(x.v, 8, Len(x.v))} : x.v = <<"m","a","i","l","t","o",":">> \o rest

HasAt(x) == x.t = "string" /\ \E i \in 1..Len(x.v) : x.v[i] = "@"

\* C7: makeMailtoLink(raw) is "[[raw][X]]" when raw is "mailto:" followed by
\* X; else "[[mailto:raw][raw]]" when raw contains "@"; else raw unchanged.
\* It never fails, undefined and empty input come back unchanged, and the
\* "mailto:" test takes precedence over the "@" test.
C7_MailtoLink ==
    call.fn = "makeMailtoLink" =>
        LET raw == call.arg
        IN  /\ ~IsThrow(call.ret)
            /\ HasMailtoPrefix(raw) =>
                  call.ret = Str(<<"[","[">> \o raw.v \o <<"]","[">> \o SubSeq(raw.v, 8, Len(raw.v)) \o <<"]","]">>)
            /\ (~HasMailtoPrefix(raw) /\ HasAt(raw)) =>
                  call.ret = Str(<<"[","[","m","a","i","l","t","o",":">> \o raw.v \o <<"]","[">> \o raw.v \o <<"]","]">>)
            /\ (~HasMailtoPrefix(raw) /\ ~HasAt(raw)) => call.ret = raw

\* an address that both starts with "mailto:" and contains "@"
C7_Witness ==
    /\ call.fn = "makeMailtoLink"
    /\ call.arg = Str(<<"m","a","i","l","t","o",":","f","r","e","d","@","b","e","d","r","o","c","k",".","c","o","m">>)
    /\ call.ret = Str(<<"[","[","m","a","i","l","t","o",":","f","r","e","d","@","b","e","d","r","o","c","k",".","c","o","m","]","[","f","r","e","d","@","b","e","d","r","o","c","k",".","c","o","m","]","]">>)

C9_NeverFailsNorNull ==
    call.fn = "getPropertyValue" =>
        LET name == call.arg[1]
            prop == call.arg[2]
        IN  /\ call.ret.t \notin {"throw", "null", "undefined"}
            /\ ~prop.present => call.ret = Str(<<>>)
            /\ (prop.present /\ name = "status") => call.ret.t = "string"
            /\ (prop.present /\ name = "last-modified") => call.ret.t = "date"
            /\ (prop.present /\ name = "sequence") => call.ret.t = "string"

Given(switch) == switch # undefined

EffectiveText(switch, setting) == IF Given(switch) THEN switch ELSE setting

EffectiveDays(switch, setting, default) ==
    IF Given(switch) THEN switch
    ELSE IF Given(setting) THEN Num(decimalValue(setting.v))
    ELSE Num(default)

\* C10: a command line switch overrides the configuration file: for each of
\* -i, -o, -a, -e, -p and -f the effective setting is the switch's value
\* whenever the switch is given (0 for -p and -f included), else the
\* configured value when set, else the default (PAST 7, FUTURE 365).
C10_SwitchesOverride ==
    pc = "resolved" =>
        /\ ICS_FILE = EffectiveText(argv.i, env.ICS_FILE)
        /\ ORG_FILE = EffectiveText(argv.o, env.ORG_FILE)
        /\ AUTHOR = EffectiveText(argv.a, env.AUTHOR)
        /\ EMAIL = EffectiveText(argv.e, env.EMAIL)
        /\ past = EffectiveDays(argv.p, env.PAST, 7)
        /\ future = EffectiveDays(argv.f, env.FUTURE, 365)

HeaderLabels ==
    <<<<"#","+","T","I","T","L","E",":"," "," "," "," "," "," "," ">>, <<"#","+","A","U","T","H","O","R",":"," "," "," "," "," "," ">>, <<"#","+","E","M","A","I","L",":"," "," "," "," "," "," "," ">>, <<"#","+","D","E","S","C","R","I","P","T","I","O","N",":"," ">>,
      <<"#","+","C","A","T","E","G","O","R","Y",":"," "," "," "," ">>, <<"#","+","S","T","A","R","T","U","P",":"," "," "," "," "," ">>, <<"#","+","F","I","L","E","T","A","G","S",":"," "," "," "," ">>>>

\* one line: the only line break of the chunk is its last character
IsOneLine(chunk) ==
    /\ chunk # <<>>
    /\ \A i \in 1..Len(chunk) : (chunk[i] = "\n") <=> (i = Len(chunk))

\* C11: whatever the configuration, the document starts with the lines TITLE,
\* AUTHOR, EMAIL, DESCRIPTION, CATEGORY, STARTUP, FILETAGS in that order and
\* one blank line, before any event block; the title is "Calendar" when none
\* is configured and the configured title otherwise.
C11_FixedHeader ==
    Rendering =>
        /\ Len(rs.buffer) >= Len(HeaderLabels) + 1
        /\ \A i \in 1..Len(HeaderLabels) :
              startsWith(rs.buffer[i], HeaderLabels[i]) /\ IsOneLine(rs.buffer[i])
        /\ rs.buffer[Len(HeaderLabels) + 1] = <<"\n">>
        /\ \A i \in HeadlineIndices : i > Len(HeaderLabels) + 1
        /\ rs.buffer[1] = HeaderLabels[1]
                          \o (IF env.TITLE = undefined THEN <<"C","a","l","e","n","d","a","r">> ELSE env.TITLE.v)
                          \o <<"\n">>

\* a finished document of a run without a configured title
C11_Witness ==
    /\ pc = "done"
    /\ env.TITLE = undefined
    /\ Len(allEvents) >= 1
    /\ of.data[1] = <<"#","+","T","I","T","L","E",":"," "," "," "," "," "," "," ","C","a","l","e","n","d","a","r","\n">>
    /\ of.data[Len(HeaderLabels) + 2] = <<"*"," ">> \o ToStr(allEvents[1].summary) \o <<"\n">>

HelpGiven == Truthy(argv.h) \/ Truthy(argv.help)

DumpGiven == Truthy(argv.dump)

\* C12: with -h/--help or --dump the program prints the help text or the
\* configuration and exits: the ICS input is never read, the output file is
\* never created, truncated or written; -h takes precedence over --dump.
C12_HelpAndDumpOnlyPrint ==
    (HelpGiven \/ DumpGiven) =>
        /\ pc \in {"start", "resolved", "exited"}
        /\ pc = "resolved" => ~HelpGiven
        /\ console = IF pc # "exited" THEN <<>>
                     ELSE IF HelpGiven THEN <<[text |-> "help"]>> ELSE <<[text |-> "config"]>>
        /\ events = [events |-> <<>>, occurrences |-> <<>>]
        /\ of = NoFile
        /\ rs = newReadable
        /\ thrown = NoError

\* --help together with --dump: the help text was printed, and nothing else
C12_Witness ==
    /\ pc = "exited"
    /\ HelpGiven /\ DumpGiven
    /\ console = <<[text |-> "help"]>>

\* C13: a failure while handing the text to the output file (the destination
\* cannot be opened, or the write stream reports an error, also after
\* createOrgFile has returned) is rethrown with a message that names the
\* stage, "createOrgFile: ...".
C13_OutputFailureNamesStage ==
    thrown.at = "output" =>
        /\ Len(thrown.message) >= 2
        /\ thrown.message[1] = "createOrgFile"

Normalised == mappedEvents # <<>> \/ mappedOccurrences # <<>> \/ allEvents # <<>>

OwnProperty(component, name) ==
    IF ~component[name].present THEN Str(<<>>)
    ELSE IF name = "last-modified" THEN DateOf(component[name].value.v)
    ELSE component[name].value

\* C15: an occurrence is normalized with the start and end of the occurrence
\* itself, never of its item, and with every other field read from its own
\* item: its uid is the item's uid, and a field the item lacks is empty or
\* absent.
C15_OccurrenceFromItsOwnItem ==
    pc \in {"mappedOccurrences", "merged", "forEach", "piping", "done"} =>
        /\ Len(mappedOccurrences) = Len(events.occurrences)
        /\ \A j \in 1..Len(mappedOccurrences) :
              LET o == events.occurrences[j]
                  m == mappedOccurrences[j]
              IN  /\ m.startDate = DateOf(o.startDate.v)
                  /\ m.endDate = DateOf(o.endDate.v)
                  /\ m.uid = o.item.uid
                  /\ m.summary = o.item.summary
                  /\ m.description = o.item.description
                  /\ m.location = o.item.location
                  /\ m.organizer = o.item.organizer
                  /\ m.duration = o.item.duration
                  /\ Len(m.attendees) = Len(o.item.attendees)
                  /\ \A i \in 1..Len(m.attendees) :
                        /\ m.attendees[i].cn = o.item.attendees[i].jCal[2].cn
                        /\ m.attendees[i].status = o.item.attendees[i].jCal[2].partstat
                  /\ m.status = OwnProperty(o.item.component, "status")
                  /\ m.modified = OwnProperty(o.item.component, "last-modified")

\* an occurrence on another day than its item, the item without summary,
\* status and last modification
C15_Witness ==
    /\ pc = "mappedOccurrences"
    /\ \E j \in 1..Len(mappedOccurrences) :
          /\ events.occurrences[j].item.startDate # events.occurrences[j].startDate
          /\ mappedOccurrences[j].startDate = DateOf(events.occurrences[j].startDate.v)
          /\ events.occurrences[j].item.summary = null
          /\ mappedOccurrences[j].summary = null
          /\ mappedOccurrences[j].status = Str(<<>>)
          /\ mappedOccurrences[j].uid = events.occurrences[j].item.uid

\* the word occurs in the text
Contains(text, word) ==
    \E i \in 1..(Len(text) - Len(word) + 1) : SubSeq(text, i, i + Len(word) - 1) = word

\* C16: a rendered entry holds only values present on its source component:
\* a missing summary, common name or participation status never puts the
\* placeholder text "undefined" or "null" into the entry.
C16_NoPlaceholderText ==
    Rendering =>
        \A k \in 1..(next - 1) :
            \A i \in 1..Len(Block(k)) :
                /\ ~Contains(Block(k)[i], <<"u","n","d","e","f","i","n","e","d">>)
                /\ ~Contains(Block(k)[i], <<"n","u","l","l">>)

CalledDumpEvent == call.fn = "dumpEvent"

\* C18: makeTimestamp wraps the instant in "<" and ">" for the kind "active"
\* or no kind, in "[" and "]" for "inactive", and gives the empty text for an
\* absent instant; so a LAST_MODIFIED line of dumpEvent always carries an
\* inactive timestamp, never an empty or an active one.
C18_TimestampBrackets ==
    /\ call.fn = "makeTimestamp" =>
          LET dt == call.arg[1]
              kind == call.arg[2]
          IN  /\ (dt.t = "date" /\ kind \in {"active", "omitted"}) =>
                    call.ret = <<"<">> \o Stamp(dt.v) \o <<">">>
              /\ (dt.t = "date" /\ kind = "inactive") =>
                    call.ret = <<"[">> \o Stamp(dt.v) \o <<"]">>
              /\ dt.t # "date" => call.ret = <<>>
    /\ CalledDumpEvent =>
          \A i \in Lines(call.ret, <<":","L","A","S","T","_","M","O","D","I","F","I","E","D",":"," ">>) :
              /\ call.arg[1].modified.t = "date"
              /\ call.ret[i] = <<":","L","A","S","T","_","M","O","D","I","F","I","E","D",":"," ","[">> \o Stamp(call.arg[1].modified.v) \o <<"]","\n">>

\* an event modified on Thursday at 12:05
C18_Witness ==
    /\ CalledDumpEvent
    /\ call.arg[1].modified = DateOf(At(0, 12, 5))
    /\ Count(call.ret, <<":","L","A","S","T","_","M","O","D","I","F","I","E","D",":"," ","[","2","0","2","1","-","0","8","-","0","5"," ","T","h","u"," ","1","2",":","0","5","]","\n">>) = 1

\* C19: in the asynchronous version the me flag of every attendee is computed
\* against the author and email of the configuration: it is true exactly
\* when the common name equals config.AUTHOR or config.EMAIL.
C19_MeAgainstConfiguration ==
    \A k \in 1..Len(mappedEvents \o mappedOccurrences) :
        LET e == (mappedEvents \o mappedOccurrences)[k]
        IN  \A i \in 1..Len(e.attendees) :
                e.attendees[i].me <=> (e.attendees[i].cn = AUTHOR \/ e.attendees[i].cn = EMAIL)

\* C20: wherever an event with attendees stands in the document and however
\* much has been pushed before it, its ATTENDEES line ends with a line
\* break, so that ":END:" starts a line of its own.
C20_AttendeesLineIsTerminated ==
    Rendering =>
        \A k \in 1..(next - 1) :
            LET b == Block(k)
            IN  \A i \in Lines(b, <<":","A","T","T","E","N","D","E","E","S",":"," "," "," "," ">>) :
                    /\ i < Len(b)
                    /\ b[i + 1] = <<"\n">>

\* the number of entries of a document
Entries(chunks) == Cardinality({i \in 1..Len(chunks) : IsHeadline(chunks[i])})

\* C21: "Generated new org file in <file> with <N> entries" is printed only
\* once the output file has been written completely and successfully, N is
\* the number of event blocks in the file, and a run whose write fails never
\* prints it.
C21_GeneratedOnlyOnceWritten ==
    \A i \in 1..Len(console) :
        console[i].text = "generated" =>
            /\ of.state = "closed"
            /\ of.data = rs.buffer
            /\ console[i].entries = Entries(of.data)
            /\ console[i].entries = Len(events.events) + Len(events.occurrences)
            /\ thrown = NoError

\* C22: an attendee without a common name is never flagged as me, whatever
\* the configuration, also when no author name or no email is configured.
C22_UnnamedAttendeeIsNotMe ==
    (call.fn = "parseAttendee" /\ call.arg.cn = undefined) => ~call.ret.me
====
